---- MODULE Spec2Model ----
(***************************************************************************)
(* Model of src/App.py (AI Study Plan Manager).                            *)
(*                                                                         *)
(* Units.  Dates are day numbers (date.today() is day Today).  Hours are   *)
(* centi-hours (1.0 h = 100), so every hour value with at most two         *)
(* decimals is an exact integer; round(x, 1) becomes rounding to a         *)
(* multiple of 10.  Scores are thousandths (1.0 = 1000), the precision of  *)
(* round(score, 3).  Clock times are minutes since midnight.  Arithmetic   *)
(* is exact on these integers; the values the specifications draw are ones *)
(* on which the program's floating-point arithmetic gives the same result. *)
(* Widget values (study hours, planning mode, start time, slot length) are *)
(* the arguments of the handler that reads them.                           *)
(***************************************************************************)
EXTENDS Integers, Sequences, FiniteSets, TLC

VARIABLES
    plans,                \* st.session_state.plans
    exams,                \* st.session_state.exams
    syllabus_subjects,    \* st.session_state.syllabus_subjects
    generated_for_today,  \* st.session_state.generated_for_today
    last                  \* the handler that ran last: its arguments and what it returned

vars == <<plans, exams, syllabus_subjects, generated_for_today, last>>

\* ------------------------------------------------------------------ bounds
MaxPlans == 2      \* tasks in the store (application specification)
MaxExams == 1      \* exams in the datesheet (application specification)
MaxSubjects == 1   \* subjects in the syllabus planner (application specification)
MaxLoad == 6       \* tasks of one subject in the pool (scoring specification)
MaxDaysLeft == 32  \* days from today to a deadline (scoring specification)
MaxPool == 3       \* tasks in the store (planning specification)
MaxSheetExams == 2 \* exams in the datesheet (datesheet specification)
MaxSylSubjects == 2 \* subjects in the planner (syllabus specification)
MaxSylDays == 10   \* days from today to the exam (syllabus specification)
MaxSelected == 2   \* tasks in today's plan (timetable specification)
MaxFramePlans == 2 \* tasks in the store before the operation (frame specification)
MaxEntries == 40   \* timetable entries the stepwise loop may append

\* ------------------------------------------------------------------ values
Today == 0
MaxStudyHours == 1600  \* "Study hours today": max_value = 16.0
NoDate == -1000    \* t.get("exam_date") of a task without the key: None

Min(a, b) == IF a <= b THEN a ELSE b
Max(a, b) == IF a >= b THEN a ELSE b

\* ceil(a / b) for a >= 0, b > 0
Ceil(a, b) == (a + b - 1) \div b

\* int(a / b) for a >= 0, b > 0: truncation
Trunc(a, b) == a \div b

\* sum(float(t["hours"]) for t in tasks)
RECURSIVE SumHours(_)
SumHours(tasks) == IF tasks = <<>> THEN 0 ELSE Head(tasks).hours + SumHours(Tail(tasks))

RemoveAt(s, idx) == [k \in 1..(Len(s) - 1) |-> IF k < idx THEN s[k] ELSE s[k + 1]]

\* ------------------------------------------------------------------ scoring

\* analyse_subject_stats: subject -> number of tasks of the sequence with it
analyse_subject_stats(tasks) ==
    [s \in {tasks[k].subject : k \in DOMAIN tasks} |->
        Cardinality({k \in DOMAIN tasks : tasks[k].subject = s})]

\* subject_stats.get(subj, 1)
StatsGet(subject_stats, subj) ==
    IF subj \in DOMAIN subject_stats THEN subject_stats[subj] ELSE 1

\* The five weighted terms, each in units of 1/3000 (so that 0.40 * (1 - d/30)
\* is the integer 40 * (30 - d)).
UrgencyTerm(days_left) ==
    IF days_left <= 0 THEN 1200                 \* 0.40 * 1.0
    ELSE IF days_left > 30 THEN 120             \* 0.40 * 0.1
    ELSE 40 * (30 - days_left)                  \* 0.40 * (1 - days_left / 30)

DifficultyTerm(difficulty) == 150 * difficulty  \* 0.25 * difficulty / 5

HoursTerm(h) ==
    IF h <= 100 THEN 450                        \* 0.15 * 1.0
    ELSE IF h <= 200 THEN 405                   \* 0.15 * 0.9
    ELSE IF h <= 400 THEN 315                   \* 0.15 * 0.7
    ELSE IF h <= 600 THEN 225                   \* 0.15 * 0.5
    ELSE 135                                    \* 0.15 * 0.3

SubjectTerm(total_for_subject) ==
    IF total_for_subject >= 5 THEN 300          \* 0.10 * 1.0
    ELSE IF total_for_subject = 4 THEN 270
    ELSE IF total_for_subject = 3 THEN 240
    ELSE IF total_for_subject = 2 THEN 210
    ELSE 180                                    \* 0.10 * 0.6

RevisionTerm(task_type) ==
    IF task_type = "Revision" THEN 300 ELSE 240 \* 0.10 * 1.0, 0.10 * 0.8

\* round(x / 3000, 3) in thousandths: x / 3 to the nearest integer (x / 3 is
\* never halfway between two integers)
Round3(x) == (x + 1) \div 3

compute_priority_score(task, subject_stats, today) ==
    Round3(UrgencyTerm(task.deadline - today)
           + DifficultyTerm(task.difficulty)
           + HoursTerm(task.hours)
           + SubjectTerm(StatsGet(subject_stats, task.subject))
           + RevisionTerm(task.task_type))

\* ------------------------------------------------------------------ daily plan

WithScore(t, score) ==
    [subject |-> t.subject, topic |-> t.topic, deadline |-> t.deadline,
     hours |-> t.hours, difficulty |-> t.difficulty, status |-> t.status,
     task_type |-> t.task_type, source |-> t.source, exam_date |-> t.exam_date,
     ai_score |-> score]

\* t.copy() without the ai_score key
Stored(t) ==
    [subject |-> t.subject, topic |-> t.topic, deadline |-> t.deadline,
     hours |-> t.hours, difficulty |-> t.difficulty, status |-> t.status,
     task_type |-> t.task_type, source |-> t.source, exam_date |-> t.exam_date]

\* list.sort(key = ai_score, reverse = True): stable, so equal scores keep
\* their order.  Insert x after every element whose score is >= x's.
RECURSIVE InsertByScore(_, _)
InsertByScore(sorted, x) ==
    IF sorted = <<>> THEN <<x>>
    ELSE IF Head(sorted).ai_score >= x.ai_score
         THEN <<Head(sorted)>> \o InsertByScore(Tail(sorted), x)
         ELSE <<x>> \o sorted

RECURSIVE SortByScoreDesc(_)
SortByScoreDesc(s) ==
    IF s = <<>> THEN <<>>
    ELSE InsertByScore(SortByScoreDesc(SubSeq(s, 1, Len(s) - 1)), s[Len(s)])

\* the selection loop: the first task always, a later one when it fits
TakeTaskNoFirst(selected, used_hours, hours, max_hours) ==
    used_hours + hours <= max_hours

TakeTaskOverBudget(selected, used_hours, hours, max_hours) ==
    used_hours <= max_hours \/ selected = <<>>

TakeTask(selected, used_hours, hours, max_hours) ==
    used_hours + hours <= max_hours \/ selected = <<>>

RECURSIVE SelectWithin(_, _, _, _)
SelectWithin(scored, selected, used_hours, max_hours) ==
    IF scored = <<>> THEN selected
    ELSE LET task == Head(scored)
         IN IF TakeTask(selected, used_hours, task.hours, max_hours)
            THEN SelectWithin(Tail(scored), Append(selected, task),
                              used_hours + task.hours, max_hours)
            ELSE SelectWithin(Tail(scored), selected, used_hours, max_hours)

IsPending(t) == t.status = "Pending"

ExamsTomorrow(all_exams, today) ==
    SelectSeq(all_exams, LAMBDA e : e.exam_date = today + 1)

SubjectsOf(s) == {s[k].subject : k \in DOMAIN s}

\* focus mode without the fall-back to every pending task when no exam is tomorrow
CandidatePoolNoFallback(all_plans, all_exams, planning_mode, today) ==
    LET pending_tasks == SelectSeq(all_plans, IsPending)
        exams_tomorrow == ExamsTomorrow(all_exams, today)
        filtered == SelectSeq(pending_tasks,
                        LAMBDA t : t.exam_date = today + 1
                                   \/ t.subject \in SubjectsOf(exams_tomorrow))
    IN IF planning_mode = "Day-Before-Exam Focus"
       THEN filtered
       ELSE pending_tasks

\* the pool generate_today_plan scores (lines 116-144): the pending tasks, cut
\* down to tomorrow's exam subjects in focus mode when an exam is tomorrow
CandidatePool(all_plans, all_exams, planning_mode, today) ==
    LET pending_tasks == SelectSeq(all_plans, IsPending)
        exams_tomorrow == ExamsTomorrow(all_exams, today)
        filtered == SelectSeq(pending_tasks,
                        LAMBDA t : t.exam_date = today + 1
                                   \/ t.subject \in SubjectsOf(exams_tomorrow))
    IN IF planning_mode = "Day-Before-Exam Focus" /\ exams_tomorrow # <<>>
       THEN filtered
       ELSE pending_tasks

\* generate_today_plan(max_hours, planning_mode) = <<selected, scored>>
generate_today_plan(all_plans, all_exams, max_hours, planning_mode, today) ==
    LET pool == CandidatePool(all_plans, all_exams, planning_mode, today)
        subject_stats == analyse_subject_stats(pool)
        scored == SortByScoreDesc(
                      [k \in DOMAIN pool |->
                          WithScore(pool[k],
                                    compute_priority_score(pool[k], subject_stats, today))])
    IN IF pool = <<>> THEN << <<>>, <<>> >>      \* lines 131-136 and 146-147
       ELSE <<SelectWithin(scored, <<>>, 0, max_hours), scored>>

\* ------------------------------------------------------------------ exam mode

\* round(x, 1) on centi-hours: to the nearest multiple of 10, a tie to the even
\* one (the ties that occur in the bounded inputs, .25 and .75, are exact in
\* binary floating point, where Python rounds half to even)
Round1(x) ==
    LET q == x \div 10
        r == x % 10
    IN IF r < 5 THEN 10 * q
       ELSE IF r > 5 THEN 10 * (q + 1)
       ELSE IF q % 2 = 0 THEN 10 * q ELSE 10 * (q + 1)

\* the division by n instead of n + 1
DayIndexOverN(i, days_available, n) == Trunc((i + 1) * days_available, n)

\* the quotient rounded up instead of truncated
DayIndexRoundUp(i, days_available, n) == Ceil((i + 1) * days_available, n + 1)

\* int((i + 1) * days_available / (n + 1))
DayIndex(i, days_available, n) == Trunc((i + 1) * days_available, n + 1)

\* lines 279-285: the deadline of a session, kept before the exam and not before today
SessionDeadlineNoExamClamp(start_date, day_index, exam_date, today) ==
    LET d0 == start_date + day_index
    IN IF d0 < today THEN today ELSE d0

SessionDeadline(start_date, day_index, exam_date, today) ==
    LET d0 == start_date + day_index
        d1 == IF d0 >= exam_date THEN exam_date - 1 ELSE d0
    IN IF d1 < today THEN today ELSE d1

ExamTask(exam, i, session_deadline, hours_this) ==
    [subject |-> exam.subject,
     topic |-> exam.subject \o " Exam Prep Session " \o ToString(i + 1),
     deadline |-> session_deadline,
     hours |-> Round1(hours_this),
     difficulty |-> exam.difficulty,
     status |-> "Pending",
     task_type |-> "Revision",
     source |-> "Exam Mode",
     exam_date |-> exam.exam_date]

\* the loop of lines 277-302 from session i on, total_hours being what is left
RECURSIVE SessionLoop(_, _, _, _, _, _, _, _)
SessionLoop(exam, i, sessions, days_available, session_len, total_hours, start_date, today) ==
    IF i >= sessions THEN <<>>
    ELSE LET day_index == DayIndex(i, days_available, sessions)
             session_deadline == SessionDeadline(start_date, day_index, exam.exam_date, today)
             hours_this == Min(session_len, total_hours)
         IN <<ExamTask(exam, i, session_deadline, hours_this)>>
            \o SessionLoop(exam, i + 1, sessions, days_available, session_len,
                           total_hours - hours_this, start_date, today)

\* max(1, ceil(total_hours / session_len))
SessionCount(total_hours, session_len) == Max(1, Ceil(total_hours, session_len))

\* lines 256-302 for one exam: the tasks it appends
ExamSessions(exam, start_date, default_session_hours, today) ==
    LET days0 == exam.exam_date - start_date
        days_available == IF days0 <= 0 THEN 1 ELSE days0
        session_len == Min(default_session_hours, exam.hours)
    IN IF exam.exam_date <= today THEN <<>>
       ELSE IF session_len <= 0 THEN <<>>
       ELSE SessionLoop(exam, 0, SessionCount(exam.hours, session_len), days_available,
                        session_len, exam.hours, start_date, today)

\* lines 262-263 and 270-272: the exam is passed over
ExamSkipped(exam, default_session_hours, today) ==
    exam.exam_date <= today \/ Min(default_session_hours, exam.hours) <= 0

\* the run given up at the first exam passed over (break for continue)
RECURSIVE generate_tasks_until_skip(_, _, _, _)
generate_tasks_until_skip(all_exams, start_date, default_session_hours, today) ==
    IF all_exams = <<>> THEN <<>>
    ELSE IF ExamSkipped(Head(all_exams), default_session_hours, today) THEN <<>>
    ELSE ExamSessions(Head(all_exams), start_date, default_session_hours, today)
         \o generate_tasks_until_skip(Tail(all_exams), start_date,
                                      default_session_hours, today)

\* generate_tasks_from_datesheet: the tasks appended to the store, in order;
\* created_count is their number
RECURSIVE generate_tasks_from_datesheet(_, _, _, _)
generate_tasks_from_datesheet(all_exams, start_date, default_session_hours, today) ==
    IF all_exams = <<>> THEN <<>>
    ELSE ExamSessions(Head(all_exams), start_date, default_session_hours, today)
         \o generate_tasks_from_datesheet(Tail(all_exams), start_date,
                                          default_session_hours, today)

\* ------------------------------------------------------------------ syllabus planner

\* lines 381-385: the (subject, topic) pairs in subject order, then topic order
RECURSIVE AllItems(_)
AllItems(subjects) ==
    IF subjects = <<>> THEN <<>>
    ELSE [k \in DOMAIN Head(subjects).topics |->
             <<Head(subjects).subject, Head(subjects).topics[k]>>]
         \o AllItems(Tail(subjects))

\* generate_tasks_from_syllabus: the tasks appended to the store, in order
generate_tasks_from_syllabus(subjects, exam_date, hours_per_topic, default_difficulty, today) ==
    LET all_items == AllItems(subjects)
        days0 == exam_date - today
        days_available == IF days0 <= 0 THEN 1 ELSE days0
        total_topics == Len(all_items)
    IN IF exam_date <= today THEN <<>>
       ELSE [k \in DOMAIN all_items |->
                [subject |-> all_items[k][1],
                 topic |-> all_items[k][2],
                 deadline |-> today + DayIndex(k - 1, days_available, total_topics),
                 hours |-> hours_per_topic,
                 difficulty |-> default_difficulty,
                 status |-> "Pending",
                 task_type |-> "New",
                 source |-> "Syllabus Planner",
                 exam_date |-> exam_date]]

\* ------------------------------------------------------------------ timetable

\* int(float(hours) * 60)
MinutesOf(hours) == Trunc(hours * 60, 100)

\* strftime("%H:%M") of the datetime dt minutes after the planning day's
\* midnight: the clock time, the date dropped
ClockHM(dt) == dt % 1440

TopicLabel(topic, minutes_left, slot_minutes, part) ==
    IF minutes_left > slot_minutes \/ part > 1
    THEN topic \o " (Part " \o ToString(part) \o ")"
    ELSE topic

\* where the next slot starts
NextStartFullSlot(current_dt, duration, slot_minutes) == current_dt + slot_minutes

NextStart(current_dt, duration, slot_minutes) == current_dt + duration

\* the while loop of lines 327-348 for one task: <<schedule, current_dt>>
RECURSIVE SlotLoop(_, _, _, _, _, _)
SlotLoop(task, minutes_left, part, current_dt, slot_minutes, schedule) ==
    IF minutes_left <= 0 THEN <<schedule, current_dt>>
    ELSE LET duration == Min(slot_minutes, minutes_left)
             end_dt == NextStart(current_dt, duration, slot_minutes)
             entry == [Slot |-> Len(schedule) + 1,
                       Start |-> ClockHM(current_dt),
                       End |-> ClockHM(end_dt),
                       Subject |-> task.subject,
                       Topic |-> TopicLabel(task.topic, minutes_left, slot_minutes, part),
                       Planned_Minutes |-> duration]
         IN SlotLoop(task, minutes_left - duration, part + 1, end_dt, slot_minutes,
                     Append(schedule, entry))

RECURSIVE TaskLoop(_, _, _, _)
TaskLoop(selected_tasks, current_dt, slot_minutes, schedule) ==
    IF selected_tasks = <<>> THEN schedule
    ELSE LET task == Head(selected_tasks)
             done == SlotLoop(task, MinutesOf(task.hours), 1, current_dt, slot_minutes, schedule)
         IN TaskLoop(Tail(selected_tasks), done[2], slot_minutes, done[1])

\* build_daily_schedule(selected_tasks, start_time, slot_minutes)
build_daily_schedule(selected_tasks, start_time, slot_minutes) ==
    TaskLoop(selected_tasks, start_time, slot_minutes, <<>>)

\* ------------------------------------------------------------------ the application
\* The pages' handlers on st.session_state, each run to completion.

NoOp == [op |-> "start"]

Init ==
    /\ plans = <<>>
    /\ exams = <<>>
    /\ syllabus_subjects = <<>>
    /\ generated_for_today = <<>>
    /\ last = NoOp

\* what the forms of the application specification are filled with
FormSubjects == {"Maths", ""}
FormSessionHours == {97, 200}
FormSyllabusDates == {Today, Today + 3}
PlanningModes == {"Normal (All Subjects)", "Day-Before-Exam Focus"}
FormStudyHours == {100}

\* show_create_plan, "Add Task"
AddTask(subject, topic, deadline, hours, difficulty, task_type) ==
    /\ subject # "" /\ topic # ""
    /\ Len(plans) < MaxPlans
    /\ plans' = Append(plans,
                       [subject |-> subject, topic |-> topic, deadline |-> deadline,
                        hours |-> hours, difficulty |-> difficulty, status |-> "Pending",
                        task_type |-> task_type, source |-> "Manual",
                        exam_date |-> NoDate])
    /\ UNCHANGED <<last, exams, syllabus_subjects, generated_for_today>>

\* show_exam_mode, "Add Exam to Datesheet"
AddExam(subject, exam_date, hours, difficulty) ==
    /\ subject # ""
    /\ Len(exams) < MaxExams
    /\ exams' = Append(exams, [subject |-> subject, exam_date |-> exam_date,
                               hours |-> hours, difficulty |-> difficulty])
    /\ UNCHANGED <<last, plans, syllabus_subjects, generated_for_today>>

\* show_exam_mode, "Delete This Exam"
DeleteExam(idx) ==
    /\ idx \in DOMAIN exams
    /\ exams' = RemoveAt(exams, idx)
    /\ UNCHANGED <<last, plans, syllabus_subjects, generated_for_today>>

\* show_exam_mode, "Generate Plan from Datesheet"
GenerateFromDatesheet(start_date, default_session_hours) ==
    LET created == generate_tasks_from_datesheet(exams, start_date,
                                                 default_session_hours, Today)
    IN /\ exams # <<>>
       /\ Len(plans) + Len(created) <= MaxPlans
       /\ plans' = plans \o created
       /\ UNCHANGED <<last, exams, syllabus_subjects, generated_for_today>>

\* show_syllabus_planner, "Add Subject"
AddSubject(subject_name, topics) ==
    /\ subject_name # ""
    /\ topics # <<>>
    /\ Len(syllabus_subjects) < MaxSubjects
    /\ syllabus_subjects' = Append(syllabus_subjects,
                                   [subject |-> subject_name, topics |-> topics])
    /\ UNCHANGED <<last, plans, exams, generated_for_today>>

\* show_syllabus_planner, "Remove this subject"
RemoveSubject(idx) ==
    /\ idx \in DOMAIN syllabus_subjects
    /\ syllabus_subjects' = RemoveAt(syllabus_subjects, idx)
    /\ UNCHANGED <<last, plans, exams, generated_for_today>>

\* show_syllabus_planner, "Create Tasks from Syllabus"
CreateFromSyllabus(exam_date, hours_per_topic, default_difficulty) ==
    LET created == generate_tasks_from_syllabus(syllabus_subjects, exam_date,
                                                hours_per_topic, default_difficulty, Today)
    IN /\ syllabus_subjects # <<>>
       /\ Len(plans) + Len(created) <= MaxPlans
       /\ plans' = plans \o created
       /\ UNCHANGED <<last, exams, syllabus_subjects, generated_for_today>>

\* show_dashboard, "Generate / Refresh AI Plan"
GeneratePlan(study_hours_today, planning_mode) ==
    /\ generated_for_today' =
           IF plans = <<>> THEN <<>>
           ELSE generate_today_plan(plans, exams, study_hours_today, planning_mode, Today)[1]
    /\ UNCHANGED <<last, plans, exams, syllabus_subjects>>

\* show_view_edit, "Mark as Done"
MarkDoneToggle(idx) ==
    /\ idx \in DOMAIN plans
    /\ plans' = [plans EXCEPT ![idx].status =
                    IF plans[idx].status = "Done" THEN "Pending" ELSE "Done"]
    /\ UNCHANGED <<last, exams, syllabus_subjects, generated_for_today>>

MarkDone(idx) ==
    /\ idx \in DOMAIN plans
    /\ plans' = [plans EXCEPT ![idx].status = "Done"]
    /\ UNCHANGED <<last, exams, syllabus_subjects, generated_for_today>>

\* the deleted task taken out of today's plan as well
DeleteTaskFromPlan(idx) ==
    /\ idx \in DOMAIN plans
    /\ plans' = RemoveAt(plans, idx)
    /\ generated_for_today' =
           SelectSeq(generated_for_today, LAMBDA t : Stored(t) # plans[idx])
    /\ UNCHANGED <<last, exams, syllabus_subjects>>

\* show_view_edit, "Delete"
DeleteTask(idx) ==
    /\ idx \in DOMAIN plans
    /\ plans' = RemoveAt(plans, idx)
    /\ UNCHANGED <<last, exams, syllabus_subjects, generated_for_today>>

Next ==
    \/ \E subject \in FormSubjects : AddTask(subject, "Trees", Today + 7, 100, 3, "New")
    \/ AddExam("Maths", Today + 1, 100, 4)
    \/ \E idx \in 1..MaxExams : DeleteExam(idx)
    \/ \E default_session_hours \in FormSessionHours :
           GenerateFromDatesheet(Today, default_session_hours)
    \/ AddSubject("DSA", <<"Sorting">>)
    \/ \E idx \in 1..MaxSubjects : RemoveSubject(idx)
    \/ \E exam_date \in FormSyllabusDates : CreateFromSyllabus(exam_date, 100, 3)
    \/ \E study_hours_today \in FormStudyHours, planning_mode \in PlanningModes :
           GeneratePlan(study_hours_today, planning_mode)
    \/ \E idx \in 1..MaxPlans : MarkDone(idx)
    \/ \E idx \in 1..MaxPlans : DeleteTask(idx)

Spec == Init /\ [][Next]_vars

\* ------------------------------------------------------------------ scoring alone
\* compute_priority_score on one task, for every load of its subject.

ScoreHours == {50, 100, 101, 200, 201, 400, 401, 600, 601, 1200}

ScoreTasks ==
    [subject : {"Maths"}, topic : {"Trees"},
     deadline : (Today - 1)..(Today + MaxDaysLeft),
     hours : ScoreHours, difficulty : 1..5, status : {"Pending"},
     task_type : {"New", "Revision"}, source : {"Manual"}, exam_date : {NoDate}]

InitScore ==
    /\ plans \in {<<t>> : t \in ScoreTasks}
    /\ exams = <<>>
    /\ syllabus_subjects = <<>>
    /\ generated_for_today = <<>>
    /\ last = NoOp

ScoreTask(total_for_subject) ==
    /\ last.op = "start"
    /\ last' = [op |-> "score", load |-> total_for_subject,
                score |-> compute_priority_score(
                              plans[1],
                              [s \in {plans[1].subject} |-> total_for_subject],
                              Today)]
    /\ UNCHANGED <<plans, exams, syllabus_subjects, generated_for_today>>

NextScore == \E total_for_subject \in 1..MaxLoad : ScoreTask(total_for_subject)

SpecScore == InitScore /\ [][NextScore]_vars

\* ------------------------------------------------------------------ planning alone
\* generate_today_plan on every store and datesheet of the sets below.

PoolTask(subject, topic, hours, status, source, exam_date) ==
    [subject |-> subject, topic |-> topic, deadline |-> Today, hours |-> hours,
     difficulty |-> 3, status |-> status,
     task_type |-> IF source = "Exam Mode" THEN "Revision" ELSE "New",
     source |-> source, exam_date |-> exam_date]

PoolTasks ==
    {PoolTask(subject, "Trees", hours, "Pending", "Manual", NoDate) :
         subject \in {"Maths", "DSA"}, hours \in {50, 100, 300}}
    \cup {PoolTask("Maths", "Trees", 100, "Done", "Manual", NoDate),
          PoolTask("DSA", "DSA Exam Prep Session 1", 200, "Pending", "Exam Mode", Today + 1),
          PoolTask("Maths", "Maths Exam Prep Session 2", 0, "Pending", "Exam Mode", Today + 3)}

PoolExam(subject, exam_date) ==
    [subject |-> subject, exam_date |-> exam_date, hours |-> 300, difficulty |-> 3]

PoolExams ==
    {<<>>, <<PoolExam("Maths", Today + 1)>>, <<PoolExam("Physics", Today + 1)>>,
     <<PoolExam("Maths", Today + 3)>>}

PoolMaxHours == {50, 100, 400}

RECURSIVE SeqsUpTo(_, _)
SeqsUpTo(S, n) ==
    IF n = 0 THEN {<<>>}
    ELSE LET shorter == SeqsUpTo(S, n - 1)
         IN shorter \cup {Append(q, x) : q \in {r \in shorter : Len(r) = n - 1}, x \in S}

InitPlan ==
    /\ plans \in SeqsUpTo(PoolTasks, MaxPool)
    /\ exams \in PoolExams
    /\ syllabus_subjects = <<>>
    /\ generated_for_today = <<>>
    /\ last = NoOp

\* the scores written to the stored tasks themselves (no t.copy())
PlanTodayInPlace(max_hours, planning_mode) ==
    LET result == generate_today_plan(plans, exams, max_hours, planning_mode, Today)
        pool == CandidatePool(plans, exams, planning_mode, Today)
        subject_stats == analyse_subject_stats(pool)
    IN /\ last.op = "start"
       /\ generated_for_today' = result[1]
       /\ plans' = [k \in DOMAIN plans |->
                       IF \E j \in DOMAIN pool : pool[j] = plans[k]
                       THEN WithScore(plans[k],
                                      compute_priority_score(plans[k], subject_stats, Today))
                       ELSE plans[k]]
       /\ last' = [op |-> "generate", max_hours |-> max_hours, mode |-> planning_mode,
                   scored |-> result[2]]
       /\ UNCHANGED <<exams, syllabus_subjects>>

PlanToday(max_hours, planning_mode) ==
    LET result == generate_today_plan(plans, exams, max_hours, planning_mode, Today)
    IN /\ last.op = "start"
       /\ generated_for_today' = result[1]
       /\ last' = [op |-> "generate", max_hours |-> max_hours, mode |-> planning_mode,
                   scored |-> result[2]]
       /\ UNCHANGED <<plans, exams, syllabus_subjects>>

NextPlan ==
    \E max_hours \in PoolMaxHours, planning_mode \in PlanningModes :
        PlanToday(max_hours, planning_mode)

SpecPlan == InitPlan /\ [][NextPlan]_vars

\* ------------------------------------------------------------------ exam mode alone
\* generate_tasks_from_datesheet on an empty store, for every datesheet of the
\* sets below.

SheetExams ==
    [subject : {"Maths"},
     exam_date : {Today - 1, Today, Today + 1, Today + 2, Today + 5},
     hours : {100, 300, 500, 600}, difficulty : {4}]

SheetStartDates == {Today - 2, Today, Today + 1, Today + 7}
SheetSessionHours == {50, 54, 200}

InitSheet ==
    /\ plans = <<>>
    /\ exams \in SeqsUpTo(SheetExams, MaxSheetExams) \ {<<>>}
    /\ syllabus_subjects = <<>>
    /\ generated_for_today = <<>>
    /\ last = NoOp

RunDatesheet(start_date, default_session_hours) ==
    LET created == generate_tasks_from_datesheet(exams, start_date,
                                                 default_session_hours, Today)
    IN /\ last.op = "start"
       /\ plans' = plans \o created
       /\ last' = [op |-> "datesheet", start_date |-> start_date,
                   session_hours |-> default_session_hours,
                   created_count |-> Len(created)]
       /\ UNCHANGED <<exams, syllabus_subjects, generated_for_today>>

NextSheet ==
    \E start_date \in SheetStartDates, default_session_hours \in SheetSessionHours :
        RunDatesheet(start_date, default_session_hours)

SpecSheet == InitSheet /\ [][NextSheet]_vars

\* ------------------------------------------------------------------ syllabus planner alone
\* generate_tasks_from_syllabus on an empty store.

SylSubjects ==
    {[subject |-> "DSA", topics |-> <<"Sorting">>],
     [subject |-> "DSA", topics |-> <<"Sorting", "Graphs">>],
     [subject |-> "Maths", topics |-> <<"Algebra">>]}

InitSyl ==
    /\ plans = <<>>
    /\ exams = <<>>
    /\ syllabus_subjects \in SeqsUpTo(SylSubjects, MaxSylSubjects) \ {<<>>}
    /\ generated_for_today = <<>>
    /\ last = NoOp

RunSyllabus(exam_date, hours_per_topic, default_difficulty) ==
    LET created == generate_tasks_from_syllabus(syllabus_subjects, exam_date,
                                                hours_per_topic, default_difficulty, Today)
    IN /\ last.op = "start"
       /\ plans' = plans \o created
       /\ last' = [op |-> "syllabus", exam_date |-> exam_date,
                   created_count |-> Len(created)]
       /\ UNCHANGED <<exams, syllabus_subjects, generated_for_today>>

NextSyl ==
    \E exam_date \in (Today - 1)..(Today + MaxSylDays), hours_per_topic \in {50, 100} :
        RunSyllabus(exam_date, hours_per_topic, 3)

SpecSyl == InitSyl /\ [][NextSyl]_vars

\* ------------------------------------------------------------------ timetable alone
\* build_daily_schedule on today's plan, as show_dashboard calls it.

SchedTasks ==
    {WithScore(PoolTask("Maths", "Trees", hours, "Pending", "Manual", NoDate), 800) :
         hours \in {0, 50, 51, 250, 1200}}

\* what generate_today_plan can select: within the budget, or one task alone
Selectable(tasks) == Len(tasks) = 1 \/ SumHours(tasks) <= MaxStudyHours

SchedStartTimes == {9 * 60, 23 * 60 + 30}
SchedSlotMinutes == {30, 45, 60}

InitSched ==
    /\ plans = <<>>
    /\ exams = <<>>
    /\ syllabus_subjects = <<>>
    /\ generated_for_today \in
           {tasks \in SeqsUpTo(SchedTasks, MaxSelected) \ {<<>>} : Selectable(tasks)}
    /\ last = NoOp

BuildSchedule(start_time, slot_minutes) ==
    /\ last.op = "start"
    /\ last' = [op |-> "schedule", start_time |-> start_time,
                slot_minutes |-> slot_minutes,
                schedule |-> build_daily_schedule(generated_for_today, start_time,
                                                  slot_minutes)]
    /\ UNCHANGED <<plans, exams, syllabus_subjects, generated_for_today>>

NextSched ==
    \E start_time \in SchedStartTimes, slot_minutes \in SchedSlotMinutes :
        BuildSchedule(start_time, slot_minutes)

SpecSched == InitSched /\ [][NextSched]_vars

\* ------------------------------------------------------------------ claims

HasPending(store) == \E k \in DOMAIN store : store[k].status = "Pending"

RECURSIVE SumPlanned(_)
SumPlanned(schedule) ==
    IF schedule = <<>> THEN 0 ELSE Head(schedule).Planned_Minutes + SumPlanned(Tail(schedule))

Abs(x) == IF x < 0 THEN 0 - x ELSE x

TomorrowSubjects ==
    {exams[k].subject : k \in {j \in DOMAIN exams : exams[j].exam_date = Today + 1}}

FocusMatch ==
    \E k \in DOMAIN plans :
        /\ plans[k].status = "Pending"
        /\ plans[k].exam_date = Today + 1 \/ plans[k].subject \in TomorrowSubjects

\* C1 as stated: whenever the store holds a Pending task, generate_today_plan
\* returns a non-empty selected list, for every max_hours and every planning mode.
C1_NonEmptyEveryMode ==
    (last.op = "generate" /\ HasPending(plans)) => generated_for_today # <<>>

\* C1 amended: whenever the store holds a Pending task, selected is non-empty for
\* every max_hours in Normal mode, and in Day-Before-Exam Focus mode unless an
\* exam is tomorrow and no Pending task has exam_date tomorrow or the subject of
\* one of tomorrow's exams.
C1_NonEmptyUnlessFocusEmpty ==
    (/\ last.op = "generate"
     /\ HasPending(plans)
     /\ \/ last.mode = "Normal (All Subjects)"
        \/ TomorrowSubjects = {}
        \/ FocusMatch)
    => generated_for_today # <<>>

C1_Witness ==
    /\ last.op = "generate"
    /\ last.mode = "Day-Before-Exam Focus"
    /\ TomorrowSubjects # {}
    /\ HasPending(plans)
    /\ \A k \in DOMAIN plans : plans[k].hours > last.max_hours
    /\ Len(generated_for_today) = 1

\* C2 as stated: every score lies in [0.275, 1.0].
C2_ScoreInRange ==
    last.op = "score" => (last.score >= 275 /\ last.score <= 1000)

\* C3: every task generate_tasks_from_datesheet creates has a deadline d with
\* today <= d < exam_date of its exam, for every start date and session length.
C3_DeadlineWindow ==
    last.op = "datesheet" =>
        \A k \in DOMAIN plans :
            Today <= plans[k].deadline /\ plans[k].deadline < plans[k].exam_date

C3_Witness ==
    /\ last.op = "datesheet"
    /\ last.start_date = Today + 7
    /\ \E k \in DOMAIN plans : plans[k].deadline = plans[k].exam_date - 1
    /\ \E k \in DOMAIN plans : plans[k].exam_date = Today + 5

\* C4 as stated, for a datesheet of one qualifying exam: exactly
\* max(1, ceil(hours / min(session, hours))) tasks, whose hours sum to the exam's
\* hours to within 0.1, each at most min(session, hours).
C4_SessionsSplitHours ==
    (last.op = "datesheet" /\ Len(exams) = 1 /\ exams[1].exam_date > Today) =>
        LET cap == Min(last.session_hours, exams[1].hours)
        IN /\ Len(plans) = Max(1, Ceil(exams[1].hours, cap))
           /\ Abs(SumHours(plans) - exams[1].hours) <= 10
           /\ \A k \in DOMAIN plans : plans[k].hours <= cap

TopicCount == Len(AllItems(syllabus_subjects))

\* C5: for 3 topics and an exam date 10 days after today, generate_tasks_from_syllabus
\* creates exactly 3 tasks, one per (subject, topic) pair in flattened order, whose
\* deadlines lie strictly between today and the exam date and never decrease.
C5_ThreeTopicsTenDays ==
    (last.op = "syllabus" /\ TopicCount = 3 /\ last.exam_date = Today + 10) =>
        /\ last.created_count = 3
        /\ Len(plans) = 3
        /\ \A k \in 1..3 :
               /\ plans[k].subject = AllItems(syllabus_subjects)[k][1]
               /\ plans[k].topic = AllItems(syllabus_subjects)[k][2]
               /\ Today < plans[k].deadline
               /\ plans[k].deadline < Today + 10
        /\ \A k \in 1..2 : plans[k].deadline <= plans[k + 1].deadline

C5_Witness ==
    /\ last.op = "syllabus"
    /\ TopicCount = 3
    /\ Len(syllabus_subjects) = 2
    /\ last.exam_date = Today + 10
    /\ Len(plans) = 3

\* C6 as stated: the Planned Minutes of the schedule sum to
\* round(sum of task.hours * 60).
C6_TotalMinutesRounded ==
    last.op = "schedule" =>
        SumPlanned(last.schedule) = (SumHours(generated_for_today) * 60 + 50) \div 100

\* two entries share no minute of the 24-hour clock: going round the clock from
\* the start of either, the other starts only after it has ended
NoSharedMinute(a, b) ==
    /\ (b.Start - a.Start) % 1440 >= a.Planned_Minutes
    /\ (a.Start - b.Start) % 1440 >= b.Planned_Minutes

\* C7: the schedule's entries are back to back on the clock: the first starts at
\* start_time, each later one where the one before it ends (also from one task to
\* the next), each ends Planned Minutes > 0 after it starts (clock times are
\* HH:MM, so past midnight they start again at 00:00), and no two entries cover
\* the same clock time.
C7_Contiguous ==
    last.op = "schedule" =>
        LET schedule == last.schedule
        IN /\ schedule # <<>> => schedule[1].Start = last.start_time
           /\ \A k \in DOMAIN schedule :
                  /\ schedule[k].Planned_Minutes > 0
                  /\ schedule[k].End
                         = (schedule[k].Start + schedule[k].Planned_Minutes) % 1440
                  /\ k > 1 => schedule[k].Start = schedule[k - 1].End
           /\ \A j, k \in DOMAIN schedule :
                  j < k => NoSharedMinute(schedule[j], schedule[k])

C7_Witness ==
    /\ last.op = "schedule"
    /\ Len(generated_for_today) = 2
    /\ generated_for_today[1].hours = 250
    /\ generated_for_today[2].hours = 51
    /\ last.slot_minutes = 60
    /\ Len(last.schedule) = 4
    /\ last.schedule[4].Start = last.schedule[3].End
    /\ \E k \in DOMAIN last.schedule : last.schedule[k].End < last.schedule[k].Start

\* the first pool position holding the highest score
FirstBest(pool) ==
    LET subject_stats == analyse_subject_stats(pool)
        score(k) == compute_priority_score(pool[k], subject_stats, Today)
    IN CHOOSE k \in DOMAIN pool :
           /\ \A j \in DOMAIN pool : score(j) <= score(k)
           /\ \A j \in 1..(k - 1) : score(j) < score(k)

\* C8: the hours of selected exceed max_hours only when selected is exactly one
\* task; the first selected task is the head of the score-sorted list, which is
\* the highest-scored pool task, the earliest in pool order among equals.
C8_BudgetRule ==
    last.op = "generate" =>
        LET pool == CandidatePool(plans, exams, last.mode, Today)
        IN /\ SumHours(generated_for_today) > last.max_hours
                  => Len(generated_for_today) = 1
           /\ generated_for_today # <<>> => generated_for_today[1] = last.scored[1]
           /\ pool # <<>> =>
                  /\ Len(last.scored) = Len(pool)
                  /\ Stored(last.scored[1]) = pool[FirstBest(pool)]

C8_Witness ==
    /\ last.op = "generate"
    /\ last.max_hours = 50
    /\ Len(plans) = 2
    /\ \A k \in DOMAIN plans :
           plans[k].status = "Pending" /\ plans[k].hours = 100 /\ plans[k].deadline = Today
    /\ Len(last.scored) = 2
    /\ Len(generated_for_today) = 1
    /\ SumHours(generated_for_today) > last.max_hours

\* one step of the store in a task's lifecycle: tasks appended, one task deleted,
\* or one Pending task marked Done
LifecycleStep ==
    \/ plans' = plans
    \/ Len(plans') > Len(plans) /\ SubSeq(plans', 1, Len(plans)) = plans
    \/ \E idx \in DOMAIN plans : plans' = RemoveAt(plans, idx)
    \/ \E idx \in DOMAIN plans :
           /\ plans[idx].status = "Pending"
           /\ plans' = [plans EXCEPT ![idx].status = "Done"]

\* C9: every user action changes the tasks already in the store only by a
\* Pending -> Done transition of one task or by deleting one task; no Done task
\* becomes Pending again and no other field of a stored task changes.
C9_Lifecycle == [][LifecycleStep]_vars

C9_Witness ==
    /\ Len(plans) = 2
    /\ plans[1].status = "Done"
    /\ plans[2].status = "Pending"
    /\ generated_for_today # <<>>

\* C10 as stated: every task in the store has hours > 0 and difficulty in 1..5.
C10_HoursPositive ==
    \A k \in DOMAIN plans : plans[k].hours > 0 /\ plans[k].difficulty \in 1..5

\* ------------------------------------------------------------------ build_daily_schedule, statement by statement
\* The loops of lines 323-348 one iteration at a time; last holds the locals.

LoopSlotMinutes == {30, 45, 180}

InitLoop ==
    /\ plans = <<>>
    /\ exams = <<>>
    /\ syllabus_subjects = <<>>
    /\ generated_for_today \in {tasks \in SeqsUpTo(SchedTasks, MaxSelected) : Selectable(tasks)}
    /\ last = NoOp

\* lines 316-321: an empty plan returns [] at once, otherwise the locals are set
EnterBuild(start_time, slot_minutes) ==
    /\ last.op = "start"
    /\ last' = IF generated_for_today = <<>>
               THEN [op |-> "schedule", start_time |-> start_time,
                     slot_minutes |-> slot_minutes, schedule |-> <<>>]
               ELSE [op |-> "for", start_time |-> start_time,
                     slot_minutes |-> slot_minutes, schedule |-> <<>>,
                     current_dt |-> start_time, tasks |-> generated_for_today]
    /\ UNCHANGED <<plans, exams, syllabus_subjects, generated_for_today>>

\* lines 323-325: the for loop takes the next task
EnterTask ==
    /\ last.op = "for"
    /\ last.tasks # <<>>
    /\ last' = [op |-> "while", start_time |-> last.start_time,
                slot_minutes |-> last.slot_minutes, schedule |-> last.schedule,
                current_dt |-> last.current_dt, tasks |-> Tail(last.tasks),
                task |-> Head(last.tasks),
                minutes_left |-> MinutesOf(Head(last.tasks).hours), part |-> 1]
    /\ UNCHANGED <<plans, exams, syllabus_subjects, generated_for_today>>

\* one slot appended, the minutes left as they were
SlotStepNoDecrement ==
    /\ last.op = "while"
    /\ last.minutes_left > 0
    /\ Len(last.schedule) < MaxEntries
    /\ LET duration == Min(last.slot_minutes, last.minutes_left)
           end_dt == NextStart(last.current_dt, duration, last.slot_minutes)
           entry == [Slot |-> Len(last.schedule) + 1,
                     Start |-> ClockHM(last.current_dt),
                     End |-> ClockHM(end_dt),
                     Subject |-> last.task.subject,
                     Topic |-> TopicLabel(last.task.topic, last.minutes_left,
                                          last.slot_minutes, last.part),
                     Planned_Minutes |-> duration]
       IN last' = [last EXCEPT !.schedule = Append(last.schedule, entry),
                               !.current_dt = end_dt,
                               !.part = last.part + 1]
    /\ UNCHANGED <<plans, exams, syllabus_subjects, generated_for_today>>

\* lines 327-348: one iteration of the while loop
SlotStep ==
    /\ last.op = "while"
    /\ last.minutes_left > 0
    /\ Len(last.schedule) < MaxEntries
    /\ LET duration == Min(last.slot_minutes, last.minutes_left)
           end_dt == NextStart(last.current_dt, duration, last.slot_minutes)
           entry == [Slot |-> Len(last.schedule) + 1,
                     Start |-> ClockHM(last.current_dt),
                     End |-> ClockHM(end_dt),
                     Subject |-> last.task.subject,
                     Topic |-> TopicLabel(last.task.topic, last.minutes_left,
                                          last.slot_minutes, last.part),
                     Planned_Minutes |-> duration]
       IN last' = [last EXCEPT !.schedule = Append(last.schedule, entry),
                               !.minutes_left = last.minutes_left - duration,
                               !.current_dt = end_dt,
                               !.part = last.part + 1]
    /\ UNCHANGED <<plans, exams, syllabus_subjects, generated_for_today>>

\* line 327: the while condition fails, back to the for loop
LeaveTask ==
    /\ last.op = "while"
    /\ last.minutes_left <= 0
    /\ last' = [op |-> "for", start_time |-> last.start_time,
                slot_minutes |-> last.slot_minutes, schedule |-> last.schedule,
                current_dt |-> last.current_dt, tasks |-> last.tasks]
    /\ UNCHANGED <<plans, exams, syllabus_subjects, generated_for_today>>

\* line 350: return schedule
ReturnSchedule ==
    /\ last.op = "for"
    /\ last.tasks = <<>>
    /\ last' = [op |-> "schedule", start_time |-> last.start_time,
                slot_minutes |-> last.slot_minutes, schedule |-> last.schedule]
    /\ UNCHANGED <<plans, exams, syllabus_subjects, generated_for_today>>

NextLoop ==
    \/ \E start_time \in SchedStartTimes, slot_minutes \in LoopSlotMinutes :
           EnterBuild(start_time, slot_minutes)
    \/ EnterTask
    \/ SlotStep
    \/ LeaveTask
    \/ ReturnSchedule

\* the call runs to completion: a statement that can run does run
SpecLoop == InitLoop /\ [][NextLoop]_vars /\ WF_vars(NextLoop)

\* ------------------------------------------------------------------ datesheets with exams to pass over
\* generate_tasks_from_datesheet on datesheets that hold exams of today or the
\* past and exams whose session length comes out as 0.

SkipExams ==
    [subject : {"Maths", "DSA"},
     exam_date : {Today - 1, Today, Today + 2},
     hours : {0, 300}, difficulty : {4}]

SkipSessionHours == {0, 200}

InitSkip ==
    /\ plans = <<>>
    /\ exams \in SeqsUpTo(SkipExams, MaxSheetExams) \ {<<>>}
    /\ syllabus_subjects = <<>>
    /\ generated_for_today = <<>>
    /\ last = NoOp

NextSkip ==
    \E default_session_hours \in SkipSessionHours :
        RunDatesheet(Today, default_session_hours)

SpecSkip == InitSkip /\ [][NextSkip]_vars

\* ------------------------------------------------------------------ the four operations on a filled store
\* generate_today_plan, build_daily_schedule and the two allocators, each run
\* once on a store, a datesheet and a syllabus that already hold something.

FrameTasks ==
    {PoolTask("Maths", "Trees", 100, "Pending", "Manual", NoDate),
     PoolTask("DSA", "Graphs", 300, "Done", "Manual", NoDate)}

FrameExams ==
    {<<>>,
     <<PoolExam("Maths", Today)>>,
     <<PoolExam("Maths", Today + 2)>>,
     <<PoolExam("DSA", Today - 1), PoolExam("Maths", Today + 1)>>}

FrameSyllabus == {<<>>, <<[subject |-> "DSA", topics |-> <<"Sorting", "Graphs">>]>>}

FramePlans ==
    {<<>>, <<WithScore(PoolTask("DSA", "Graphs", 100, "Pending", "Manual", NoDate), 800)>>}

InitFrame ==
    /\ plans \in SeqsUpTo(FrameTasks, MaxFramePlans)
    /\ exams \in FrameExams
    /\ syllabus_subjects \in FrameSyllabus
    /\ generated_for_today \in FramePlans
    /\ last = NoOp

NextFrame ==
    \/ \E planning_mode \in PlanningModes : PlanToday(100, planning_mode)
    \/ BuildSchedule(9 * 60, 60)
    \/ RunDatesheet(Today, 200)
    \/ \E exam_date \in {Today, Today + 3} : RunSyllabus(exam_date, 100, 3)

SpecFrame == InitFrame /\ [][NextFrame]_vars

\* what one operation may do to the store, the datesheet and the syllabus
FrameStep ==
    /\ exams' = exams
    /\ syllabus_subjects' = syllabus_subjects
    /\ last'.op \in {"start", "generate", "schedule"} => plans' = plans
    /\ last'.op \in {"datesheet", "syllabus"} =>
           /\ Len(plans') = Len(plans) + last'.created_count
           /\ SubSeq(plans', 1, Len(plans)) = plans
    /\ (last'.op = "syllabus" /\ last'.exam_date <= Today) =>
           (last'.created_count = 0 /\ plans' = plans)
    /\ (last'.op = "datesheet" /\ \A k \in DOMAIN exams : exams[k].exam_date <= Today) =>
           (last'.created_count = 0 /\ plans' = plans)
    /\ \A k \in DOMAIN plans' : "ai_score" \notin DOMAIN plans'[k]

\* C11: generate_today_plan and build_daily_schedule leave the store, the
\* datesheet and the syllabus unchanged and put no ai_score on a stored task; the
\* two allocators only append to the store, keeping the tasks it held and their
\* order, and return the number of tasks appended, which is 0 with the store
\* unchanged when the exam date is not after today or no exam qualifies.
C11_Frame == [][FrameStep]_vars

C11_Witness ==
    /\ last.op = "datesheet"
    /\ last.created_count = 2
    /\ Len(plans) = 4
    /\ plans[1].status = "Done"
    /\ plans[3].source = "Exam Mode"

ForTomorrow(t) ==
    /\ t.status = "Pending"
    /\ t.exam_date = Today + 1 \/ t.subject \in TomorrowSubjects

\* C12: in Day-Before-Exam Focus mode, with no exam dated tomorrow the result
\* (selected, scored) is the Normal-mode result on the same store; with an exam
\* dated tomorrow every task of selected and scored is Pending and has exam_date
\* tomorrow or the subject of one of tomorrow's exams, and both are empty when no
\* pending task is of that kind.
C12_FocusMode ==
    (last.op = "generate" /\ last.mode = "Day-Before-Exam Focus") =>
        LET normal == generate_today_plan(plans, exams, last.max_hours,
                                          "Normal (All Subjects)", Today)
        IN /\ TomorrowSubjects = {} =>
                  (generated_for_today = normal[1] /\ last.scored = normal[2])
           /\ TomorrowSubjects # {} =>
                  /\ \A k \in DOMAIN generated_for_today : ForTomorrow(generated_for_today[k])
                  /\ \A k \in DOMAIN last.scored : ForTomorrow(last.scored[k])
           /\ (TomorrowSubjects # {} /\ ~FocusMatch) =>
                  (generated_for_today = <<>> /\ last.scored = <<>>)

C12_Witness ==
    /\ last.op = "generate"
    /\ last.mode = "Day-Before-Exam Focus"
    /\ TomorrowSubjects = {"Physics"}
    /\ Len(generated_for_today) = 1
    /\ generated_for_today[1].subject = "DSA"
    /\ \E k \in DOMAIN plans : plans[k].status = "Pending" /\ ~ForTomorrow(plans[k])

\* C13: for n >= 1 items spread over d >= 1 days, the offset of item i (from 0)
\* is floor((i+1)*d/(n+1)); the offsets are non-decreasing, lie in 0..d-1, and
\* when n > d they are exactly the days 0..d-1, no day skipped.
C13_EvenSpread ==
    (last.op = "syllabus" /\ last.exam_date > Today) =>
        LET n == Len(plans)
            d == last.exam_date - Today
            offset(k) == plans[k].deadline - Today
        IN /\ n >= 1
           /\ \A k \in 1..n :
                  /\ offset(k) * (n + 1) <= k * d
                  /\ k * d < (offset(k) + 1) * (n + 1)
                  /\ 0 <= offset(k)
                  /\ offset(k) <= d - 1
           /\ \A k \in 1..(n - 1) : offset(k) <= offset(k + 1)
           /\ n > d => {offset(k) : k \in 1..n} = 0..(d - 1)

C13_Witness ==
    /\ last.op = "syllabus"
    /\ last.exam_date = Today + 3
    /\ Len(plans) = 4
    /\ plans[1].deadline = Today
    /\ plans[2].deadline = plans[3].deadline
    /\ plans[4].deadline = Today + 2

KeptExams ==
    SelectSeq(exams, LAMBDA e : ~ExamSkipped(e, last.session_hours, Today))

TasksOf(e) ==
    {k \in DOMAIN plans : plans[k].subject = e.subject /\ plans[k].exam_date = e.exam_date}

\* C15: an exam dated today or earlier, or whose session length
\* min(session hours, exam hours) is <= 0, contributes no task and does not stop
\* the run: the tasks created are those of the datesheet without the exams passed
\* over, and every other exam gets its tasks.
C15_SkippedExams ==
    last.op = "datesheet" =>
        /\ plans = generate_tasks_from_datesheet(KeptExams, last.start_date,
                                                 last.session_hours, Today)
        /\ last.created_count = Len(plans)
        /\ \A k \in DOMAIN plans :
               \E j \in DOMAIN KeptExams : k \in TasksOf(KeptExams[j])
        /\ \A j \in DOMAIN KeptExams : TasksOf(KeptExams[j]) # {}
        /\ KeptExams = <<>> => plans = <<>>

C15_Witness ==
    /\ last.op = "datesheet"
    /\ last.session_hours = 200
    /\ Len(exams) = 2
    /\ exams[1].exam_date = Today + 2
    /\ exams[1].hours = 0
    /\ exams[2].subject = "DSA"
    /\ exams[2].hours = 300
    /\ Len(plans) = 2
    /\ plans[1].subject = "DSA"

\* what one click may do to today's plan
TodayPlanStep ==
    /\ (plans' # plans \/ exams' # exams \/ syllabus_subjects' # syllabus_subjects)
           => generated_for_today' = generated_for_today
    /\ generated_for_today' # generated_for_today =>
           \E study_hours_today \in FormStudyHours, planning_mode \in PlanningModes :
               generated_for_today' =
                   IF plans = <<>> THEN <<>>
                   ELSE generate_today_plan(plans, exams, study_hours_today,
                                            planning_mode, Today)[1]

\* C16: today's plan is replaced only by "Generate / Refresh AI Plan", which
\* sets it to empty on an empty store and otherwise to the selected tasks computed
\* from the store at that moment; marking Done, deleting, adding and the
\* allocators leave it as it is, so it can list a task that is Done or gone.
C16_TodayPlanKept == [][TodayPlanStep]_vars

C16_Witness ==
    /\ Len(generated_for_today) = 1
    /\ generated_for_today[1].status = "Pending"
    /\ Len(plans) = 1
    /\ plans[1] = [Stored(generated_for_today[1]) EXCEPT !.status = "Done"]

====
